---- MODULE Spec2Model ----
(***************************************************************************)
(* A model of the IBM QX API client (package qiskit_api_go): the           *)
(* connection (Dial, obtainToken, newRequest, do), the client options and  *)
(* the job/experiment submission path.                                     *)
(*                                                                         *)
(* Go calls are modelled with an explicit call stack: Conn.do calls        *)
(* Conn.obtainToken on a 401 answer and Conn.obtainToken calls Conn.do for *)
(* the login request, so the two functions are mutually recursive.  Every  *)
(* transport invocation (http.Client.Do) is one step whose outcome is      *)
(* chosen by the environment (the server and the network).                 *)
(***************************************************************************)
EXTENDS Integers, Sequences, FiniteSets, TLC

VARIABLES
    dopts,      \* Conn.dopts, the dialOptions of the connection
    dialed,     \* the options of the Dial call in progress or just returned
    phase,      \* "start" | "dialing" | "dialed" | "ready" | "running" | "panic" | "exit"
    opts,       \* Client.opts, the clientOptions of the client
    args,       \* the options of the call of the client in progress or just returned
    plain,      \* TRUE while no ClientOption was passed to NewClient or to a call
    backends,   \* Client.backends, the map of backend name to Backend
    fetched,    \* the lists AvailableBackends has decoded so far, oldest first
    lookup,     \* the checkBackend call that returned last: its arguments and result
    mu,         \* Client.mu: 0 when unlocked, else the caller that holds it
    callers,    \* the concurrent callers of one client: where each stands
    ctx,        \* the context of the call in progress: "none" | "live" | "cancelled"
    job,        \* the Job of the caller
    qasmIn,     \* the qasm text the RunExperiment call in progress was given
    stack,      \* the Go call stack of the caller, innermost frame last
    op,         \* the top-level call in progress or just finished
    result,     \* the error returned by the top-level call that finished last
    stats       \* what the transport saw during the top-level call

vars ==
    <<dopts, dialed, phase, opts, args, plain, backends, fetched, lookup, mu, callers,
      ctx, job, qasmIn, stack, op, result, stats>>

----------------------------------------------------------------------------
(* Bounds of the model *)

\* WithRetries is tried with -1 and with 1..MaxRetries
MaxRetries == 2
\* nesting of obtainToken calls the model follows (the code has no limit)
MaxDepth == 2
\* the spy on the transport counts login requests up to MaxCount
MaxCount == 3
\* number of options passed to one Dial call
MaxDialOpts == 2
\* number of options passed to one NewClient, RunExperiment or RunJob call
MaxClientOpts == 1
\* number of AvailableBackends calls of one client that get a list
MaxFetches == 2
\* number of goroutines that call one client at the same time
NumCallers == 2

----------------------------------------------------------------------------
(* Program constants *)

DefaultUrl == "https://quantumexperience.ng.bluemix.net/api"
DefaultRetries == 5
\* DefaultTimeout, in seconds
DefaultTimeout == 30

----------------------------------------------------------------------------
(* Errors *)

ErrNil == [type |-> "nil", msg |-> ""]
\* an error of the transport (http.Client.Do)
NetErr == [type |-> "net", msg |-> "transport"]
\* an error of json.Decoder.Decode
DecodeErr == [type |-> "json", msg |-> "decode"]
MissingCredentialsErr ==
    [type |-> "CredentialsErr", msg |-> "missing credentials to obtain access token"]
InvalidCredentialsErr ==
    [type |-> "CredentialsErr", msg |-> "invalid credentials"]
ProperResponseErr ==
    [type |-> "ApiErr", msg |-> "Failed to get proper response from backend"]

----------------------------------------------------------------------------
(* The transport: what one http.Client.Do call can give back *)

\* a body is what its JSON text holds: kind is "object", "array" or "none"
\* (no JSON text at all)
Body(kind, id, userId, error, list) ==
    [kind |-> kind, id |-> id, userId |-> userId, error |-> error, list |-> list]
NoBody == Body("none", "", "", "", <<>>)
\* a login answer carrying a token id and a user id
TokenBody(t, u) == Body("object", t, u, "", <<>>)
\* a JSON object with no id, no userId and no error
EmptyBody == Body("object", "", "", "", <<>>)
\* a JSON object carrying an error object
ErrorBody(m) == Body("object", "", "", m, <<>>)
\* a JSON array of backends
ListBody(list) == Body("array", "", "", "", list)
\* the server message of a register larger than the device
RegisterMsg == "register exceed the number of qubits, it can't be greater than 5"

NilResp == [status |-> 0, body |-> NoBody]
Resp(s, b) == [status |-> s, body |-> b]

\* a backend as the server lists it
BackendOf(name, status, simulator, version) ==
    [Name |-> name, Status |-> status, Simulator |-> simulator, Version |-> version]

BackendLists ==
    {<<BackendOf("ibmqx4", "on", FALSE, 1), BackendOf("ibmqx5", "off", FALSE, 1)>>,
     <<BackendOf("ibmqx4", "off", FALSE, 2), BackendOf("QS1_1", "on", TRUE, 2)>>,
     <<BackendOf("simulator", "on", TRUE, 1)>>}

Bodies ==
    {TokenBody("t1", "u1"), TokenBody("t2", "u2"), EmptyBody, NoBody,
     ErrorBody("server error")}
    \cup {ListBody(l) : l \in BackendLists}

Outcomes ==
    {[resp |-> Resp(200, b), err |-> ErrNil] : b \in Bodies}
    \cup {[resp |-> Resp(401, NoBody), err |-> ErrNil],
          [resp |-> Resp(500, NoBody), err |-> ErrNil],
          [resp |-> Resp(400, ErrorBody(RegisterMsg)), err |-> ErrNil],
          \* the request failed: no response
          [resp |-> NilResp, err |-> NetErr],
          \* the redirect policy failed: the last response and an error
          [resp |-> Resp(302, NoBody), err |-> NetErr]}

----------------------------------------------------------------------------
(* dialOptions and the DialOption functions *)

ZeroDialOptions ==
    [apiToken |-> "", email |-> "", password |-> "", accessToken |-> "",
     userId |-> "", url |-> "", retries |-> 0, timeout |-> 0]

WithApiToken(token) == [f |-> "WithApiToken", a |-> token, b |-> "", n |-> 0]
WithAccessInfo(token, userId) == [f |-> "WithAccessInfo", a |-> token, b |-> userId, n |-> 0]
WithLoginInfo(email, password) == [f |-> "WithLoginInfo", a |-> email, b |-> password, n |-> 0]
WithApiUrl(url) == [f |-> "WithApiUrl", a |-> url, b |-> "", n |-> 0]
WithRetries(retries) == [f |-> "WithRetries", a |-> "", b |-> "", n |-> retries]
WithTimeout(timeout) == [f |-> "WithTimeout", a |-> "", b |-> "", n |-> timeout]

\* option(&c.dopts): the closure writes through the pointer it is given
ApplyDialOption(o, d) ==
    CASE o.f = "WithApiToken" -> [d EXCEPT !.apiToken = o.a]
      [] o.f = "WithAccessInfo" -> [d EXCEPT !.accessToken = o.a, !.userId = o.b]
      [] o.f = "WithLoginInfo" -> [d EXCEPT !.email = o.a, !.password = o.b]
      [] o.f = "WithApiUrl" -> [d EXCEPT !.url = o.a]
      [] o.f = "WithRetries" -> [d EXCEPT !.retries = o.n]
      [] o.f = "WithTimeout" -> [d EXCEPT !.timeout = o.n]

RECURSIVE ApplyDialOptions(_, _)
ApplyDialOptions(os, d) ==
    IF os = <<>> THEN d
    ELSE ApplyDialOptions(Tail(os), ApplyDialOption(Head(os), d))

CredentialOptions ==
    {WithApiToken("key"), WithLoginInfo("me@x", "pw"), WithLoginInfo("me@x", ""),
     WithAccessInfo("t0", "u0"), WithAccessInfo("", "u0")}

DialOptionChoices ==
    {WithApiToken("key"), WithAccessInfo("t0", "u0"),
     WithRetries(1), WithTimeout(10)}

DialOptionLists ==
    UNION {[1..n -> DialOptionChoices] : n \in 0..MaxDialOpts}

----------------------------------------------------------------------------
(* clientOptions and the ClientOption functions *)

\* a seed is a uint64; the model writes it as <<hi, lo>>, its value being
\* hi * 10^5 + lo with lo < 10^5
SeedGT(a, b) == a[1] > b[1] \/ (a[1] = b[1] /\ a[2] > b[2])
\* MaxSeed, 9999999999
MaxSeed == <<99999, 99999>>
NoSeed == <<0, 0>>

DefaultClientAppl == "qiskit-sdk-go"
DefaultBackend == "simulator"
DefaultShots == 1
MaxShots == 8192
\* the name made from DefaultNameFmt and time.Now()
DefaultName == "Experiment #now"

ZeroClientOptions ==
    [clientAppl |-> "", backend |-> "", shots |-> 0, name |-> "", seed |-> NoSeed,
     hub |-> "", group |-> "", project |-> ""]

ClientOptionOf(f, a, b, c, n, s) == [f |-> f, a |-> a, b |-> b, c |-> c, n |-> n, s |-> s]
WithClientApplication(appl) == ClientOptionOf("WithClientApplication", appl, "", "", 0, NoSeed)
WithBackend(backend) == ClientOptionOf("WithBackend", backend, "", "", 0, NoSeed)
WithShots(shots) == ClientOptionOf("WithShots", "", "", "", shots, NoSeed)
WithName(name) == ClientOptionOf("WithName", name, "", "", 0, NoSeed)
WithSeed(seed) == ClientOptionOf("WithSeed", "", "", "", 0, seed)
WithIbmQInfo(hub, group, project) == ClientOptionOf("WithIbmQInfo", hub, group, project, 0, NoSeed)

\* the body of the closure a ClientOption function returns: it assigns to
\* its parameter options
ClientOptionBody(o, options) ==
    CASE o.f = "WithClientApplication" ->
            [options EXCEPT !.clientAppl = DefaultClientAppl \o ":" \o o.a]
      [] o.f = "WithBackend" -> [options EXCEPT !.backend = o.a]
      [] o.f = "WithShots" -> [options EXCEPT !.shots = o.n]
      [] o.f = "WithName" -> [options EXCEPT !.name = o.a]
      [] o.f = "WithSeed" -> [options EXCEPT !.seed = o.s]
      [] o.f = "WithIbmQInfo" ->
            [options EXCEPT !.hub = o.a, !.group = o.b, !.project = o.c]

\* option(c.opts): ClientOption is func(clientOptions), so the closure gets
\* a copy of the struct and the struct of the caller stays as it was
ApplyClientOption(o, options) ==
    LET copy == ClientOptionBody(o, options) IN options

RECURSIVE ApplyClientOptions(_, _)
ApplyClientOptions(os, options) ==
    IF os = <<>> THEN options
    ELSE ApplyClientOptions(Tail(os), ApplyClientOption(Head(os), options))

Seeds == {MaxSeed, <<100000, 0>>}

ClientOptionChoices ==
    {WithBackend("ibmqx4"), WithShots(3)} \cup {WithSeed(x) : x \in Seeds}

ClientOptionLists ==
    UNION {[1..n -> ClientOptionChoices] : n \in 0..MaxClientOpts}

----------------------------------------------------------------------------
(* The call stack *)

\* a request: kind is "login" for the request obtainToken builds and "api"
\* for one built by newRequest; token is the access_token of its URL
NoParams == [shots |-> 0, seed |-> NoSeed, deviceRunType |-> ""]
NoPayload == [name |-> "", qasm |-> <<>>, codeType |-> "", apiToken |-> "",
              email |-> "", password |-> ""]
Request(kind, method, path, token, params, body) ==
    [kind |-> kind, method |-> method, path |-> path, token |-> token,
     params |-> params, body |-> body]
NoReq == Request("none", "", "", "", NoParams, NoPayload)

\* a frame of the call stack.  pc is where the call stands: a call that
\* waits for a call it made is at "await" ("reauth" for Conn.do waiting for
\* obtainToken) and a call that has executed its return statement is at
\* "return", its frame holding the returned values in resp and err until
\* the caller goes on.  A frame of Conn.do uses every field: req, retrys,
\* resp and err are the Go variables of the call
Frame(fn, pc, req, retrys) ==
    [fn |-> fn, pc |-> pc, req |-> req, retrys |-> retrys,
     resp |-> NilResp, err |-> ErrNil]

Top == stack[Len(stack)]
Under == stack[Len(stack) - 1]
\* the innermost call is fn, standing at pc
Running(fn, pc) == stack # <<>> /\ Top.fn = fn /\ Top.pc = pc
\* callee has returned to caller, which waits at pc
Returned(callee, caller, pc) ==
    /\ Len(stack) >= 2
    /\ Top.fn = callee /\ Top.pc = "return"
    /\ Under.fn = caller /\ Under.pc = pc
\* the stack without the returned callee, the caller's frame becoming f
Resume(f) == [i \in 1..(Len(stack) - 1) |-> IF i = Len(stack) - 1 THEN f ELSE stack[i]]
ReplaceTop(f) == [stack EXCEPT ![Len(stack)] = f]
\* the frame executes return with err
ReturnErr(f, err) == [f EXCEPT !.pc = "return", !.err = err]
\* the number of obtainToken calls in progress
Depth == Cardinality({i \in 1..Len(stack) : stack[i].fn = "obtainToken"})

\* what a spy on the transport and on obtainToken has seen since the
\* top-level call began:
\*   api       transport invocations carrying the request of the call
\*   denied    those of them answered with status 401
\*   failed    those of them answered with a status other than 200 and 401
\*   errors    those of them that gave an error
\*   logins    transport invocations carrying a login request; the spy
\*             counts them up to MaxCount
\*   loginBad  TRUE when a login request got anything but status 200 with
\*             a JSON object
\*   reauths   calls of obtainToken made by the Conn.do call that carries
\*             the request of the call
\*   reissues  second c.c.Do(req) calls of that Conn.do call
\*   late      TRUE when a transport invocation began after the context of
\*             the call was cancelled
ZeroStats ==
    [api |-> 0, denied |-> 0, failed |-> 0, errors |-> 0, logins |-> 0,
     loginBad |-> FALSE, reauths |-> 0, reissues |-> 0, late |-> FALSE]

----------------------------------------------------------------------------
(* Conn: Dial *)

\* a check that lets every dialOptions through
HasCredentialsAlways(d) == TRUE
\* Dial's check of the login info
HasCredentials(d) ==
    ~(d.apiToken = "" /\ d.email = "" /\ d.accessToken = "")

\* Dial's defaults
SetDefaults(d) ==
    [d EXCEPT !.url = IF @ = "" THEN DefaultUrl ELSE @,
              !.retries = IF @ = 0 THEN DefaultRetries ELSE @,
              !.timeout = IF @ = 0 THEN DefaultTimeout ELSE @]

\* Dial obtains a token unless one was supplied
NeedsToken(d) == d.accessToken = ""

\* a call of obtainToken begins
CallObtainToken(st) == Append(st, Frame("obtainToken", "start", NoReq, 0))

\* Dial up to its call of obtainToken, or up to its return
Dial(options) ==
    /\ phase = "start"
    /\ dialed' = options
    /\ op' = "Dial"
    /\ LET d == ApplyDialOptions(options, ZeroDialOptions) IN
       IF ~HasCredentials(d)
       THEN /\ dopts' = d
            /\ result' = MissingCredentialsErr
            /\ phase' = "dialed"
            /\ UNCHANGED <<stack, stats>>
       ELSE /\ dopts' = SetDefaults(d)
            /\ IF NeedsToken(SetDefaults(d))
               THEN /\ stack' = CallObtainToken(<<Frame("Dial", "await", NoReq, 0)>>)
                    /\ UNCHANGED stats
                    /\ phase' = "dialing"
                    /\ UNCHANGED result
               ELSE /\ result' = ErrNil
                    /\ phase' = "dialed"
                    /\ UNCHANGED <<stack, stats>>
    /\ UNCHANGED <<opts, args, plain, backends, fetched, lookup, mu, callers, ctx, job, qasmIn>>

\* obtainToken has returned to Dial: return c, err
DialReturn ==
    /\ Returned("obtainToken", "Dial", "await")
    /\ result' = Top.err
    /\ phase' = "dialed"
    /\ stack' = <<>>
    /\ UNCHANGED <<dopts, dialed, opts, args, plain, backends, fetched, lookup, op, stats, mu, callers, ctx, job, qasmIn>>

----------------------------------------------------------------------------
(* Conn: obtainToken *)

\* the switch that builds the login request
LoginCase(d) ==
    CASE d.apiToken # "" -> "token"
      [] d.apiToken = "" /\ d.email # "" /\ d.password # "" -> "email"
      [] OTHER -> "none"

\* the login request: the body and the URL depend on the credential
LoginRequest(d) ==
    IF LoginCase(d) = "token"
    THEN Request("login", "POST", "users/loginWithToken", "", NoParams,
                 [NoPayload EXCEPT !.apiToken = d.apiToken])
    ELSE Request("login", "POST", "users/login", "", NoParams,
                 [NoPayload EXCEPT !.email = d.email, !.password = d.password])

\* Conn.decode: json.Decoder.Decode of a response body into a struct
\* (into "object") or into a slice (into "array")
decode(body, into) == IF body.kind = into THEN ErrNil ELSE DecodeErr

\* the fields obtainToken sets from the decoded loginResp
SetToken(d, r) == [d EXCEPT !.userId = r.userId, !.accessToken = r.id]

\* a call of Conn.do begins: retrys := c.dopts.retries
CallDo(st, req) == Append(st, Frame("do", "loop", req, dopts.retries))

\* obtainToken up to its call of c.do
obtainTokenStart ==
    /\ Running("obtainToken", "start")
    /\ IF LoginCase(dopts) = "none"
       THEN stack' = ReplaceTop(ReturnErr(Top, InvalidCredentialsErr))
       ELSE stack' = CallDo(ReplaceTop([Top EXCEPT !.pc = "await"]), LoginRequest(dopts))
    /\ UNCHANGED <<dopts, dialed, phase, opts, args, plain, backends, fetched, lookup, op, result, stats, mu, callers, ctx, job, qasmIn>>

\* obtainToken after c.do returned
obtainTokenDecode ==
    /\ Returned("do", "obtainToken", "await")
    /\ IF Top.err # ErrNil
       THEN /\ stack' = Resume(ReturnErr(Under, Top.err))
            /\ UNCHANGED dopts
       ELSE IF decode(Top.resp.body, "object") # ErrNil
       THEN /\ stack' = Resume(ReturnErr(Under, decode(Top.resp.body, "object")))
            /\ UNCHANGED dopts
       ELSE /\ dopts' = SetToken(dopts, Top.resp.body)
            /\ stack' = Resume(ReturnErr(Under, ErrNil))
    /\ UNCHANGED <<dialed, phase, opts, args, plain, backends, fetched, lookup, op, result, stats, mu, callers, ctx, job, qasmIn>>

----------------------------------------------------------------------------
(* Conn: do *)

\* a loop condition that lets one more pass through
LoopCondInclusive(retrys) == retrys >= 0
\* the loop condition of Conn.do
LoopCond(retrys) == retrys > 0

\* retrys--
Decrement(retrys) == retrys - 1

\* a check of the status code that lets every response through
IsOKAlways(resp) == TRUE
\* a check that takes no status for 401
IsUnauthorizedNever(resp) == FALSE
\* the check for 401
IsUnauthorized(resp) == resp.status = 401

\* the check of the status code: TRUE when do returns the response
IsOK(resp) == resp.status = 200

\* what the spy notes when req is sent and outcome o comes back
Sent(st, req, o) ==
    IF req.kind = "login"
    THEN [st EXCEPT !.logins = IF @ < MaxCount THEN @ + 1 ELSE @,
                    !.loginBad = @ \/ o.err # ErrNil \/ o.resp.status # 200
                                   \/ o.resp.body.kind # "object",
                    !.late = @ \/ ctx = "cancelled"]
    ELSE [st EXCEPT !.api = @ + 1,
                    !.late = @ \/ ctx = "cancelled",
                    !.errors = IF o.err # ErrNil THEN @ + 1 ELSE @,
                    !.denied = IF o.err = ErrNil /\ o.resp.status = 401
                               THEN @ + 1 ELSE @,
                    !.failed = IF o.err = ErrNil /\ o.resp.status \notin {200, 401}
                               THEN @ + 1 ELSE @]

\* what the spy notes when the Conn.do call carrying req calls obtainToken
Reauth(st, req) ==
    IF req.kind = "login" THEN st ELSE [st EXCEPT !.reauths = @ + 1]

\* what the spy notes when the Conn.do call carrying req sends it again
Reissue(st, req) ==
    IF req.kind = "login" THEN st ELSE [st EXCEPT !.reissues = @ + 1]

\* resp, err = c.c.Do(req) with outcome o
Transport(f, o) == [f EXCEPT !.resp = o.resp, !.err = o.err]

\* the check of the status code and the end of the loop body: return, or
\* retrys-- and the next pass
StatusCheck(f) ==
    IF IsOK(f.resp)
    THEN [f EXCEPT !.pc = "return"]
    ELSE [f EXCEPT !.retrys = Decrement(@), !.pc = "loop"]

\* one pass of the loop: c.c.Do(req) with outcome o, up to the call of
\* obtainToken, the return or the next pass
DoAttempt(o) ==
    /\ Running("do", "loop")
    /\ LoopCond(Top.retrys)
    /\ LET f == Transport(Top, o) IN
       IF o.err # ErrNil
       THEN /\ stack' = ReplaceTop([f EXCEPT !.pc = "return"])
            /\ stats' = Sent(stats, Top.req, o)
       ELSE IF IsUnauthorized(o.resp)
       THEN /\ Depth < MaxDepth
            /\ stack' = CallObtainToken(ReplaceTop([f EXCEPT !.pc = "reauth"]))
            /\ stats' = Reauth(Sent(stats, Top.req, o), Top.req)
       ELSE /\ stack' = ReplaceTop(StatusCheck(f))
            /\ stats' = Sent(stats, Top.req, o)
    /\ UNCHANGED <<dopts, dialed, phase, opts, args, plain, backends, fetched, lookup, op, result, mu, callers, ctx, job, qasmIn>>

\* the loop ends with the retries used up
DoExhausted ==
    /\ Running("do", "loop")
    /\ ~LoopCond(Top.retrys)
    /\ stack' = ReplaceTop(ReturnErr(Top, ProperResponseErr))
    /\ UNCHANGED <<dopts, dialed, phase, opts, args, plain, backends, fetched, lookup, op, result, stats, mu, callers, ctx, job, qasmIn>>

\* obtainToken returned an error to do: do returns it
DoReauthFailed ==
    /\ Returned("obtainToken", "do", "reauth")
    /\ Top.err # ErrNil
    /\ stack' = Resume(ReturnErr(Under, Top.err))
    /\ UNCHANGED <<dopts, dialed, phase, opts, args, plain, backends, fetched, lookup, op, result, stats, mu, callers, ctx, job, qasmIn>>

\* obtainToken returned nil: resp, err = c.c.Do(req) with outcome o, whose
\* err is not looked at; resp.StatusCode of a nil resp panics
DoReissue(o) ==
    /\ Returned("obtainToken", "do", "reauth")
    /\ Top.err = ErrNil
    /\ stats' = Reissue(Sent(stats, Under.req, o), Under.req)
    /\ LET f == Transport(Under, o) IN
       IF o.resp = NilResp
       THEN /\ phase' = "panic"
            /\ stack' = Resume([f EXCEPT !.pc = "panic"])
       ELSE /\ stack' = Resume(StatusCheck(f))
            /\ UNCHANGED phase
    /\ UNCHANGED <<dopts, dialed, opts, args, plain, backends, fetched, lookup, op, result, mu, callers, ctx, job, qasmIn>>

----------------------------------------------------------------------------
(* Client: NewClient and the backend names *)

EmptyMap == [n \in {} |-> 0]

NewClient(options) ==
    /\ phase = "dialed"
    /\ result = ErrNil
    /\ LET o == ApplyClientOptions(options, ZeroClientOptions) IN
       opts' = [o EXCEPT !.clientAppl = IF @ = "" THEN DefaultClientAppl ELSE @]
    /\ backends' = EmptyMap
    /\ phase' = "ready"
    /\ op' = "NewClient"
    /\ args' = options
    /\ plain' = (options = <<>>)
    /\ dialed' = <<>>
    /\ UNCHANGED <<dopts, stack, result, stats, fetched, lookup, mu, callers, ctx, job, qasmIn>>

\* strings.ToLower on the names the model uses
ToLower(name) ==
    CASE name = "Real" -> "real"
      [] name = "QS1_1" -> "qs1_1"
      [] OTHER -> name

OldBackendNames ==
    [n \in {"ibmqx5qv2", "ibmqx2", "qx5qv2", "qx5q", "real", "ibmqx3", "simulator",
            "sim_trivial_2", "ibmqx_qasm_simulator"} |->
        CASE n \in {"ibmqx5qv2", "ibmqx2", "qx5qv2", "real"} -> "real"
          [] n = "qx5q" -> "rea;"
          [] n = "ibmqx3" -> "ibmqx3"
          [] OTHER -> "sim_trivial_2"]

\* a resolution that looks into the table of old names for every endpoint
checkBackendAnyEndpoint(backendName, endpoint) ==
    IF ToLower(backendName) \in DOMAIN OldBackendNames
    THEN OldBackendNames[ToLower(backendName)]
    ELSE IF backendName \in DOMAIN backends THEN ToLower(backendName) ELSE ""
\* the first part of checkBackend: the name is an old name and the
\* endpoint is "experiment"
IsOldName(backendName, endpoint) ==
    endpoint = "experiment" /\ ToLower(backendName) \in DOMAIN OldBackendNames

\* the second part of checkBackend, under c.mu: the name as given is
\* looked up and the lower-cased name is returned
RegistryLookup(backendName) ==
    IF backendName \in DOMAIN backends THEN ToLower(backendName) ELSE ""

\* Client.checkBackend, run by one caller alone: the lock is taken and
\* released inside
checkBackend(backendName, endpoint) ==
    IF IsOldName(backendName, endpoint)
    THEN OldBackendNames[ToLower(backendName)]
    ELSE RegistryLookup(backendName)

\* no call of checkBackend yet
NoLookup == [name |-> "", endpoint |-> "", out |-> "", again |-> FALSE]

\* a call of c.checkBackend(backendName, endpoint) on its own
CheckBackend(backendName, endpoint) ==
    /\ phase = "ready"
    /\ op' = "checkBackend"
    /\ lookup' = [name |-> backendName, endpoint |-> endpoint,
                  out |-> checkBackend(backendName, endpoint), again |-> FALSE]
    /\ UNCHANGED <<dopts, dialed, phase, opts, args, plain, backends, fetched,
                   stack, result, stats, mu, callers, ctx, job, qasmIn>>

\* the name the last call returned is resolved again, for the same endpoint
CheckBackendAgain ==
    /\ phase = "ready"
    /\ op = "checkBackend"
    /\ lookup.out # ""
    /\ ~lookup.again
    /\ lookup' = [name |-> lookup.out, endpoint |-> lookup.endpoint,
                  out |-> checkBackend(lookup.out, lookup.endpoint), again |-> TRUE]
    /\ UNCHANGED <<dopts, dialed, phase, opts, args, plain, backends, fetched,
                   stack, op, result, stats, mu, callers, ctx, job, qasmIn>>

----------------------------------------------------------------------------
(* Client: the calls that go to the server *)

\* Conn.newRequest: the access token is read when the request is built
newRequest(method, path, params, body) ==
    Request("api", method, path, dopts.accessToken, params, body)

\* a top-level call of the client calls Conn.do through get, post or put
Calls(fn, req) ==
    /\ phase' = "running"
    /\ op' = fn
    /\ stack' = CallDo(<<Frame(fn, "await", NoReq, 0)>>, req)
    /\ stats' = ZeroStats
    /\ UNCHANGED result

\* a top-level call of the client returns err without calling Conn.do
ReturnsAtOnce(fn, err) ==
    /\ phase' = "ready"
    /\ op' = fn
    /\ result' = err
    /\ stats' = ZeroStats
    /\ UNCHANGED stack

\* a top-level call of the client returns err after Conn.do returned
Returns(err) ==
    /\ phase' = "ready"
    /\ result' = err
    /\ stack' = <<>>
    /\ UNCHANGED <<op, stats>>

\* log.Fatalln: the process exits
Exits ==
    /\ phase' = "exit"
    /\ UNCHANGED <<op, result, stack, stats>>

\* Client.GetCode up to its call of c.conn.get
GetCode ==
    /\ phase = "ready"
    /\ Calls("GetCode", newRequest("GET", "Codes/id", NoParams, NoPayload))
    /\ args' = <<>>
    /\ UNCHANGED <<dopts, dialed, opts, plain, backends, fetched, lookup, mu, callers, ctx, job, qasmIn>>

\* Client.GetCode after c.conn.get returned
GetCodeReturn ==
    /\ Returned("do", "GetCode", "await")
    /\ Returns(IF Top.err # ErrNil THEN Top.err ELSE decode(Top.resp.body, "object"))
    /\ UNCHANGED <<dopts, dialed, opts, args, plain, backends, fetched, lookup, mu, callers, ctx, job, qasmIn>>

----------------------------------------------------------------------------
(* Client: RunExperiment, RunJob and AvailableBackends *)

\* NewJob: the Job of the caller
NewJob(qasms, shots, maxCredits) ==
    [Id |-> "", Shots |-> IF shots > MaxShots THEN MaxShots ELSE shots,
     MaxCredits |-> maxCredits, Qasm |-> qasms]

\* no defaults at all
ExperimentDefaultsNone(o) == o
\* the defaults RunExperiment writes into c.opts
ExperimentDefaults(o) ==
    [o EXCEPT !.backend = IF @ = "" THEN DefaultBackend ELSE @,
              !.name = IF @ = "" THEN DefaultName ELSE @,
              !.shots = IF @ = 0 THEN DefaultShots ELSE @]

\* the check for a seed value
SeedTooLong(o) == SeedGT(o.seed, MaxSeed)

InvalidSeedErr == [type |-> "ApiErr", msg |-> "invalid seed"]
BadBackendErr(backend) == [type |-> "BadBackendErr", msg |-> backend]
\* the error object of a decoded response
ServerErr(m) == [type |-> "httpErr", msg |-> m]

QasmHeaders == {"IBMQASM 2.0;", "OPENQASM 2.0;"}

\* strings.Replace(qasm, header, "", -1), for both headers; the QASM text
\* is a sequence of pieces, a header being one piece
TweakQasm(qasm) == SelectSeq(qasm, LAMBDA piece : piece \notin QasmHeaders)

\* the parameters of the request; fmt.Sprintf leaves the seed out when it
\* is 0
ExperimentParams(o, backendType) ==
    [shots |-> o.shots, seed |-> o.seed, deviceRunType |-> backendType]

\* Client.RunExperiment up to its call of c.conn.post, or up to its return
RunExperiment(qasm, options) ==
    /\ phase = "ready"
    /\ LET o == ExperimentDefaults(ApplyClientOptions(options, opts))
           backendType == checkBackend(o.backend, "experiment")
       IN /\ opts' = o
          /\ IF SeedTooLong(o)
             THEN ReturnsAtOnce("RunExperiment", InvalidSeedErr)
             ELSE IF backendType = ""
             THEN ReturnsAtOnce("RunExperiment", BadBackendErr(o.backend))
             ELSE Calls("RunExperiment",
                        newRequest("POST", "codes/execute",
                                   ExperimentParams(o, backendType),
                                   [NoPayload EXCEPT !.name = o.name,
                                                     !.qasm = TweakQasm(qasm),
                                                     !.codeType = "QASM2"]))
    /\ args' = options
    /\ plain' = (plain /\ options = <<>>)
    /\ ctx' = "live"
    /\ qasmIn' = qasm
    /\ UNCHANGED <<dopts, dialed, backends, fetched, lookup, mu, callers, job>>

\* the caller cancels the context it passed to RunExperiment while the
\* call is in progress; nothing in RunExperiment or Conn.do reads ctx
Cancel ==
    /\ phase = "running"
    /\ op = "RunExperiment"
    /\ ctx = "live"
    /\ ctx' = "cancelled"
    /\ UNCHANGED <<dopts, dialed, phase, opts, args, plain, backends, fetched, lookup,
                   mu, callers, job, qasmIn, stack, op, result, stats>>

\* Client.RunExperiment after c.conn.post returned
RunExperimentReturn ==
    /\ Returned("do", "RunExperiment", "await")
    /\ Returns(IF Top.err # ErrNil THEN Top.err
               ELSE IF decode(Top.resp.body, "object") # ErrNil
               THEN decode(Top.resp.body, "object")
               ELSE IF Top.resp.body.error # "" THEN ServerErr(Top.resp.body.error)
               ELSE ErrNil)
    /\ ctx' = "none"
    /\ qasmIn' = <<>>
    /\ UNCHANGED <<dopts, dialed, opts, args, plain, backends, fetched, lookup, mu, callers, job>>

\* the defaults of RunJob: WithBackend(DefaultBackend)(c.opts) and
\* WithShots(DefaultShots)(c.opts)
JobDefaults(o) ==
    LET o1 == IF o.backend = ""
              THEN ApplyClientOption(WithBackend(DefaultBackend), o) ELSE o
    IN IF o1.shots = 0 THEN ApplyClientOption(WithShots(DefaultShots), o1) ELSE o1

\* Client.RunJob(ctx, job, options...): it returns after the check of the
\* backend; the Job is neither read nor written
RunJob(options) ==
    /\ phase = "ready"
    /\ LET o == JobDefaults(ApplyClientOptions(options, opts))
           backendType == checkBackend(o.backend, "job")
       IN /\ opts' = o
          /\ ReturnsAtOnce("RunJob",
                IF SeedTooLong(o) THEN InvalidSeedErr
                ELSE IF backendType = "" THEN BadBackendErr(o.backend)
                ELSE ErrNil)
    /\ args' = options
    /\ plain' = (plain /\ options = <<>>)
    /\ ctx' = "none"
    /\ UNCHANGED <<dopts, dialed, backends, fetched, lookup, mu, callers, job, qasmIn>>

\* the URL AvailableBackends asks
BackendsUrl(o) ==
    IF o.hub # "" /\ o.group # "" /\ o.project # ""
    THEN "Network/hub/Groups/group/Projects/project/backends"
    ELSE "Backends"

\* Client.AvailableBackends up to its call of c.conn.get
AvailableBackends(options) ==
    /\ phase = "ready"
    /\ Len(fetched) < MaxFetches
    /\ LET o == ApplyClientOptions(options, opts) IN
          /\ opts' = o
          /\ Calls("AvailableBackends", newRequest("GET", BackendsUrl(o), NoParams, NoPayload))
    /\ args' = options
    /\ plain' = (plain /\ options = <<>>)
    /\ UNCHANGED <<dopts, dialed, backends, fetched, lookup, mu, callers, ctx, job, qasmIn>>

\* c.backends[b.Name] = b
Put(b, m) == [n \in DOMAIN m \cup {b.Name} |-> IF n = b.Name THEN b ELSE m[n]]

\* a loop body that inserts whatever the status is
InsertAlways(b, m) == Put(b, m)
\* the body of the loop over the decoded list: b is inserted when it is on
InsertIfOn(b, m) == IF b.Status = "on" THEN Put(b, m) ELSE m

\* the loop over the decoded list
RECURSIVE InsertOn(_, _)
InsertOn(list, m) ==
    IF list = <<>> THEN m
    ELSE InsertOn(Tail(list), InsertIfOn(Head(list), m))

\* Client.AvailableBackends after c.conn.get returned
AvailableBackendsReturn ==
    /\ Returned("do", "AvailableBackends", "await")
    /\ IF Top.err # ErrNil \/ decode(Top.resp.body, "array") # ErrNil
       THEN /\ Exits
            /\ UNCHANGED <<backends, fetched>>
       ELSE /\ backends' = InsertOn(Top.resp.body.list, backends)
            /\ fetched' = Append(fetched, Top.resp.body.list)
            /\ Returns(ErrNil)
    /\ UNCHANGED <<dopts, dialed, opts, args, plain, lookup, mu, callers, ctx, job, qasmIn>>

----------------------------------------------------------------------------
(* Concurrent callers of one client *)

Callers == 1..NumCallers

\* a caller that is in no call; name and out are the arguments and the
\* result of its last checkBackend call, and token, retrys and r are the
\* access_token of the request it built, the retrys of its Conn.do call
\* and the loginResp its obtainToken call decoded
IdleCaller == [fn |-> "none", pc |-> "idle", list |-> <<>>, i |-> 0,
               name |-> "", out |-> "", token |-> "", retrys |-> 0, r |-> NoBody]

\* what the concurrent steps leave alone
ConnUnchanged ==
    UNCHANGED <<dopts, dialed, opts, args, plain, lookup, ctx, job, qasmIn, stack, op,
                result, stats>>

\* the number of AvailableBackends calls in progress
Fetching == Cardinality({q \in Callers : callers[q].fn = "AvailableBackends"})

\* caller p calls AvailableBackends: c.conn.get returned a 200 response
\* with this body, which is decoded; log.Fatalln ends the process when it
\* is no list
GoAvailableBackends(p, body) ==
    /\ phase = "ready"
    /\ callers[p].pc = "idle"
    /\ Len(fetched) + Fetching < MaxFetches
    /\ IF decode(body, "array") # ErrNil
       THEN /\ phase' = "exit"
            /\ UNCHANGED callers
       ELSE /\ callers' = [callers EXCEPT ![p] =
                    [IdleCaller EXCEPT !.fn = "AvailableBackends", !.pc = "lock",
                                       !.list = body.list, !.i = 1]]
            /\ UNCHANGED phase
    /\ UNCHANGED <<mu, backends, fetched>>
    /\ ConnUnchanged

\* a lock that does not wait
CanLockAlways(p) == TRUE
\* c.mu.Lock() goes on when the mutex is unlocked
CanLock(p) == mu = 0

\* caller p takes c.mu
Lock(p) ==
    /\ phase = "ready"
    /\ callers[p].pc = "lock"
    /\ CanLock(p)
    /\ mu' = p
    /\ callers' = [callers EXCEPT ![p].pc =
           IF callers[p].fn = "checkBackend" THEN "check"
           ELSE IF callers[p].list = <<>> THEN "return" ELSE "insert"]
    /\ UNCHANGED <<phase, backends, fetched>>
    /\ ConnUnchanged

\* one pass of the loop of AvailableBackends
Insert(p) ==
    /\ phase = "ready"
    /\ callers[p].pc = "insert"
    /\ backends' = InsertIfOn(callers[p].list[callers[p].i], backends)
    /\ callers' = [callers EXCEPT ![p].i = @ + 1,
                                   ![p].pc = IF callers[p].i = Len(callers[p].list)
                                             THEN "return" ELSE "insert"]
    /\ UNCHANGED <<phase, mu, fetched>>
    /\ ConnUnchanged

\* return c.backends, and the deferred c.mu.Unlock(): the caller gets the
\* map of the client itself, a Go map being a reference, and goes on to
\* read it as the test does (len(backends), backends.Sims())
ReturnBackends(p) ==
    /\ phase = "ready"
    /\ callers[p].pc = "return"
    /\ callers[p].fn = "AvailableBackends"
    /\ mu' = 0
    /\ fetched' = Append(fetched, callers[p].list)
    /\ callers' = [callers EXCEPT ![p] =
           [IdleCaller EXCEPT !.fn = "Sims", !.pc = "range",
                              !.name = callers[p].name, !.out = callers[p].out]]
    /\ UNCHANGED <<phase, backends>>
    /\ ConnUnchanged

\* Backends.Sims on the map AvailableBackends returned: the caller ranges
\* over the map of the client; no lock is taken.  The slice it returns goes
\* to the caller and is not followed
Sims(p) ==
    /\ phase = "ready"
    /\ callers[p].fn = "Sims"
    /\ callers[p].pc = "range"
    /\ callers' = [callers EXCEPT ![p].fn = "none", ![p].pc = "idle"]
    /\ UNCHANGED <<phase, mu, backends, fetched>>
    /\ ConnUnchanged

\* caller p calls checkBackend: an old name of an experiment is answered
\* from the table, any other name goes on to the lock
GoCheckBackend(p, backendName, endpoint) ==
    /\ phase = "ready"
    /\ callers[p].pc = "idle"
    /\ callers' = [callers EXCEPT ![p] =
           IF IsOldName(backendName, endpoint)
           THEN [IdleCaller EXCEPT !.name = backendName,
                                   !.out = OldBackendNames[ToLower(backendName)]]
           ELSE [IdleCaller EXCEPT !.fn = "checkBackend", !.pc = "lock",
                                   !.name = backendName]]
    /\ UNCHANGED <<phase, mu, backends, fetched>>
    /\ ConnUnchanged

\* the existence check of checkBackend
Check(p) ==
    /\ phase = "ready"
    /\ callers[p].pc = "check"
    /\ callers' = [callers EXCEPT ![p].out = RegistryLookup(callers[p].name),
                                   ![p].pc = "return"]
    /\ UNCHANGED <<phase, mu, backends, fetched>>
    /\ ConnUnchanged

\* checkBackend returns, and the deferred c.mu.Unlock()
ReturnCheck(p) ==
    /\ phase = "ready"
    /\ callers[p].pc = "return"
    /\ callers[p].fn = "checkBackend"
    /\ mu' = 0
    /\ callers' = [callers EXCEPT ![p].fn = "none", ![p].pc = "idle"]
    /\ UNCHANGED <<phase, backends, fetched>>
    /\ ConnUnchanged

----------------------------------------------------------------------------
(* Concurrent callers of one Conn: each caller runs c.conn.get, that is     *)
(* newRequest and do, and obtainToken when its request is answered 401.     *)
(* Conn has no lock; the steps are the reads and writes of c.dopts and the  *)
(* transport invocations.  The server answers a request 200, 401 or 500 and *)
(* a login request 200, with a token or with a body that does not decode    *)

\* what the steps of Conn leave alone
ClientUnchanged ==
    UNCHANGED <<dialed, phase, opts, args, plain, backends, fetched, lookup, mu, ctx,
                job, qasmIn, stack, op, result, stats>>

\* another caller is about to write c.dopts.accessToken
Writing(p) == {q \in Callers \ {p} : callers[q].pc = "setAccessToken"}

\* what a read of c.dopts.accessToken can give: the value of the field, or,
\* when another caller writes the field at the same time, the value being
\* written or a mix of the two strings
TokenRead(p) ==
    {dopts.accessToken}
    \cup {callers[q].r.id : q \in Writing(p)}
    \cup {"torn" : q \in Writing(p)}

\* caller p calls c.conn.get
GoGet(p) ==
    /\ phase = "ready"
    /\ callers[p].pc = "idle"
    /\ callers' = [callers EXCEPT ![p] =
           [IdleCaller EXCEPT !.fn = "get", !.pc = "newRequest"]]
    /\ UNCHANGED dopts
    /\ ClientUnchanged

\* Conn.newRequest reads c.dopts.accessToken into the URL; Conn.do begins
\* with retrys := c.dopts.retries
BuildRequest(p) ==
    /\ phase = "ready"
    /\ callers[p].pc = "newRequest"
    /\ \E t \in TokenRead(p) :
          callers' = [callers EXCEPT ![p].token = t, ![p].retrys = dopts.retries,
                                     ![p].pc = "send"]
    /\ UNCHANGED dopts
    /\ ClientUnchanged

\* one pass of the loop of Conn.do: c.c.Do(req) answered with status
Send(p, status) ==
    /\ phase = "ready"
    /\ callers[p].pc = "send"
    /\ LoopCond(callers[p].retrys)
    /\ callers' = [callers EXCEPT ![p] =
           IF IsUnauthorized(Resp(status, NoBody)) THEN [@ EXCEPT !.pc = "login"]
           ELSE IF IsOK(Resp(status, NoBody)) THEN IdleCaller
           ELSE [@ EXCEPT !.retrys = Decrement(@)]]
    /\ UNCHANGED dopts
    /\ ClientUnchanged

\* the loop of Conn.do ends with the retries used up
SendExhausted(p) ==
    /\ phase = "ready"
    /\ callers[p].pc = "send"
    /\ ~LoopCond(callers[p].retrys)
    /\ callers' = [callers EXCEPT ![p] = IdleCaller]
    /\ UNCHANGED dopts
    /\ ClientUnchanged

\* obtainToken up to "Set fields": the login request is answered 200 with
\* body; when it does not decode, obtainToken and Conn.do return the error
Login(p, body) ==
    /\ phase = "ready"
    /\ callers[p].pc = "login"
    /\ LoginCase(dopts) # "none"
    /\ callers' = [callers EXCEPT ![p] =
           IF decode(body, "object") # ErrNil
           THEN IdleCaller
           ELSE [@ EXCEPT !.r = body, !.pc = "setUserId"]]
    /\ UNCHANGED dopts
    /\ ClientUnchanged

\* c.dopts.userId = r.UserId
SetUserId(p) ==
    /\ phase = "ready"
    /\ callers[p].pc = "setUserId"
    /\ dopts' = [dopts EXCEPT !.userId = callers[p].r.userId]
    /\ callers' = [callers EXCEPT ![p].pc = "setAccessToken"]
    /\ ClientUnchanged

\* c.dopts.accessToken = r.Id, and obtainToken returns nil
SetAccessToken(p) ==
    /\ phase = "ready"
    /\ callers[p].pc = "setAccessToken"
    /\ dopts' = [dopts EXCEPT !.accessToken = callers[p].r.id]
    /\ callers' = [callers EXCEPT ![p].pc = "reissue"]
    /\ ClientUnchanged

\* resp, err = c.c.Do(req) after obtainToken, answered with status, and the
\* check of the status code
Resend(p, status) ==
    /\ phase = "ready"
    /\ callers[p].pc = "reissue"
    /\ callers' = [callers EXCEPT ![p] =
           IF IsOK(Resp(status, NoBody)) THEN IdleCaller
           ELSE [@ EXCEPT !.retrys = Decrement(@), !.pc = "send"]]
    /\ UNCHANGED dopts
    /\ ClientUnchanged

----------------------------------------------------------------------------
(* The state after the package is loaded *)

Init ==
    /\ dopts = ZeroDialOptions
    /\ dialed = <<>>
    /\ phase = "start"
    /\ opts = ZeroClientOptions
    /\ args = <<>>
    /\ plain = TRUE
    /\ backends = EmptyMap
    /\ fetched = <<>>
    /\ lookup = NoLookup
    /\ mu = 0
    /\ callers = [p \in Callers |-> IdleCaller]
    /\ ctx = "none"
    /\ job = NewJob(<<"qreg q[1];", "qreg q[2];">>, 1, 0)
    /\ qasmIn = <<>>
    /\ stack = <<>>
    /\ op = "none"
    /\ result = ErrNil
    /\ stats = ZeroStats

----------------------------------------------------------------------------
(* Spec: the connection.  One caller dials with a credential and a retry   *)
(* count, makes a client and calls GetCode any number of times, against a  *)
(* server and a network that answer each transport invocation as they like *)

ConnDialLists ==
    {<<c, WithRetries(n)>> : c \in CredentialOptions, n \in {-1} \cup (1..MaxRetries)}

Next ==
    \/ \E options \in ConnDialLists : Dial(options)
    \/ DialReturn
    \/ obtainTokenStart
    \/ obtainTokenDecode
    \/ \E o \in Outcomes : DoAttempt(o)
    \/ DoExhausted
    \/ DoReauthFailed
    \/ \E o \in Outcomes : DoReissue(o)
    \/ NewClient(<<>>)
    \/ GetCode
    \/ GetCodeReturn

Spec == Init /\ [][Next]_vars

----------------------------------------------------------------------------
(* SpecClient: the client.  One caller dials with any options, makes a     *)
(* client and calls it any number of times; the server accepts the access  *)
(* token (it never answers 401) and the network does not fail              *)

QasmTexts ==
    {<<"IBMQASM 2.0;", "qreg q[1];">>, <<"qreg q[1];">>,
     <<"OPENQASM 2.0;", "qreg q[1];", "OPENQASM 2.0;">>}

AcceptedOutcomes ==
    {o \in Outcomes : o.err = ErrNil /\ ~IsUnauthorized(o.resp)}

NextClient ==
    \/ \E options \in DialOptionLists : Dial(options)
    \/ DialReturn
    \/ obtainTokenStart
    \/ obtainTokenDecode
    \/ \E o \in AcceptedOutcomes : DoAttempt(o)
    \/ DoExhausted
    \/ \E options \in ClientOptionLists : NewClient(options)
    \/ \E qasm \in QasmTexts, options \in ClientOptionLists : RunExperiment(qasm, options)
    \/ Cancel
    \/ RunExperimentReturn
    \/ \E options \in ClientOptionLists : RunJob(options)

SpecClient == Init /\ [][NextClient]_vars

----------------------------------------------------------------------------
(* SpecRegistry: the registry of backends.  One caller dials with an access *)
(* token, makes a client without options and calls AvailableBackends,       *)
(* RunExperiment, RunJob and checkBackend any number of times; the server   *)
(* accepts the access token and the network does not fail                   *)

RegistryDialLists ==
    {<<WithAccessInfo("t0", "u0"), WithRetries(n)>> : n \in 1..MaxRetries}

BackendNames ==
    {"simulator", "Real", "qx5q", "ibmqx3", "ibmqx4", "ibmqx5", "QS1_1", "nosuch"}

Endpoints == {"experiment", "job", "status"}

NextRegistry ==
    \/ \E options \in RegistryDialLists : Dial(options)
    \/ NewClient(<<>>)
    \/ AvailableBackends(<<>>)
    \/ \E o \in AcceptedOutcomes : DoAttempt(o)
    \/ DoExhausted
    \/ AvailableBackendsReturn
    \/ RunExperiment(<<"qreg q[1];">>, <<>>)
    \/ RunExperimentReturn
    \/ RunJob(<<>>)
    \/ \E n \in BackendNames, e \in Endpoints : CheckBackend(n, e)
    \/ CheckBackendAgain

SpecRegistry == Init /\ [][NextRegistry]_vars

----------------------------------------------------------------------------
(* Properties of Conn.do, checked under Spec *)

\* the Conn.do call that carries the request of the client's call
ApiDo == stack[2]
\* that call has executed its return statement and the caller has not yet
\* gone on
ApiDone ==
    /\ phase = "running"
    /\ Len(stack) = 2
    /\ ApiDo.fn = "do"
    /\ ApiDo.pc = "return"

\* C1: with retry count R >= 1 and a transport that only gives statuses
\* other than 401 and never an error, Conn.do returns the first 200 after
\* exactly k+1 transport invocations, k < R being the number of non-200
\* answers before it; when every answer is non-200 it returns the ApiErr
\* "Failed to get proper response from backend" after exactly R invocations
C1_RetryCount ==
    (ApiDone /\ dopts.retries >= 1 /\ stats.denied = 0 /\ stats.errors = 0) =>
        IF stats.api = stats.failed
        THEN /\ ApiDo.err = ProperResponseErr
             /\ stats.api = dopts.retries
        ELSE /\ ApiDo.err = ErrNil
             /\ ApiDo.resp.status = 200
             /\ stats.failed < dopts.retries
             /\ stats.api = stats.failed + 1

\* with R = 2 the request failed once and then succeeded
C1_Witness ==
    /\ ApiDone
    /\ dopts.retries = 2
    /\ stats.denied = 0 /\ stats.errors = 0
    /\ stats.failed = 1 /\ stats.api = 2
    /\ ApiDo.err = ErrNil

\* C2: on a Conn that holds an API token or an email and a password, when
\* the request is answered 401 once, the login request is answered 200
\* with a JSON object and the request sent again is answered 200, Conn.do
\* returns the 200 response without error after exactly one call of
\* obtainToken, one login request and one re-issue
C2_OneReauthSucceeds ==
    (/\ ApiDone
     /\ LoginCase(dopts) # "none"
     /\ stats.denied = 1 /\ stats.failed = 0 /\ stats.errors = 0
     /\ ~stats.loginBad) =>
        /\ ApiDo.err = ErrNil
        /\ ApiDo.resp.status = 200
        /\ stats.reauths = 1
        /\ stats.logins = 1
        /\ stats.reissues = 1
        /\ stats.api = 2

C2_Witness ==
    /\ ApiDone
    /\ stats.denied = 1 /\ stats.failed = 0 /\ stats.errors = 0
    /\ stats.logins = 1 /\ ~stats.loginBad
    /\ stats.reauths = 1 /\ stats.reissues = 1
    /\ ApiDo.err = ErrNil

\* C3: one call of Conn.do calls obtainToken at most once and sends the
\* request again because of a 401 at most once
C3_AtMostOneReauth ==
    /\ stats.reauths <= 1
    /\ stats.reissues <= 1

\* the largest number of transport invocations of one call with retry
\* count r when no login exchange is itself re-authenticated: r passes, each
\* sending the request twice and making one login call of r passes
SendBound(r) == r * (r + 2)

\* C4: the transport invocations of one call of Conn.do, login requests
\* included, are bounded by a function of the retry count
C4_BoundedSends ==
    (phase = "running" /\ dopts.retries >= 1) =>
        stats.api + stats.logins <= SendBound(dopts.retries)

\* C5: a Conn.do call whose transport invocation gave a network error has
\* returned, and no nil response is dereferenced
C5_NetErrReturnsAtOnce ==
    /\ phase # "panic"
    /\ \A i \in 1..Len(stack) :
          (stack[i].fn = "do" /\ stack[i].err = NetErr) => stack[i].pc = "return"

\* C6: a Conn.do call that got a non-200, non-401 response carrying the
\* message of the register size has returned a RegisterSizeErr
C6_RegisterSizeErr ==
    \A i \in 1..Len(stack) :
        (/\ stack[i].fn = "do"
         /\ stack[i].err = ErrNil
         /\ stack[i].resp.status \notin {0, 200, 401}
         /\ stack[i].resp.body.error = RegisterMsg) =>
            /\ stack[i].pc = "return"
            /\ stack[i].err.type = "RegisterSizeErr"

\* C8: when Dial has returned without error the access token is not empty
C8_TokenAfterDial ==
    (op = "Dial" /\ phase = "dialed" /\ result = ErrNil) => dopts.accessToken # ""

----------------------------------------------------------------------------
(* Properties of Dial and of the client's calls, checked under SpecClient *)

\* Dial has been called and NewClient not yet
InDial == op = "Dial" /\ phase \in {"dialing", "dialed"}

CredentialNames == {"WithApiToken", "WithLoginInfo", "WithAccessInfo"}

\* the options of the Dial call supply an access token
SuppliesAccessToken ==
    \E i \in 1..Len(dialed) : dialed[i].f = "WithAccessInfo" /\ dialed[i].a # ""

\* C7: Dial called without a credential option has returned a
\* CredentialsErr and the transport was not invoked; Dial called with an
\* access token makes no call of obtainToken and no login request
C7_DialCredentials ==
    /\ (InDial /\ \A i \in 1..Len(dialed) : dialed[i].f \notin CredentialNames) =>
            /\ phase = "dialed"
            /\ result.type = "CredentialsErr"
            /\ stack = <<>>
            /\ stats = ZeroStats
    /\ (InDial /\ SuppliesAccessToken) =>
            /\ phase = "dialed"
            /\ stack = <<>>
            /\ stats = ZeroStats

\* Dial was called with a retry count and a timeout and no credential
C7_Witness ==
    /\ InDial
    /\ dialed = <<WithRetries(1), WithTimeout(10)>>
    /\ result = MissingCredentialsErr
    /\ stats = ZeroStats

\* C9: after Dial with credential options only the Conn has retry count 5,
\* timeout 30 s and the default URL; RunExperiment on a client that was
\* never given a ClientOption uses backend "simulator" and shots 1, in
\* c.opts and in the request it sends
C9_Defaults ==
    /\ (/\ InDial
        /\ dialed # <<>>
        /\ \A i \in 1..Len(dialed) : dialed[i].f \in CredentialNames) =>
            /\ dopts.retries = 5
            /\ dopts.timeout = 30
            /\ dopts.url = "https://quantumexperience.ng.bluemix.net/api"
    /\ (plain /\ op = "RunExperiment") =>
            /\ opts.backend = "simulator"
            /\ opts.shots = 1
            /\ phase = "running" =>
                   /\ stack[2].req.params.shots = 1
                   /\ stack[2].req.params.deviceRunType = "sim_trivial_2"

\* RunExperiment without options, on a client made without options from a
\* Conn dialled with an API token only, has sent its request
C9_Witness ==
    /\ plain /\ op = "RunExperiment" /\ phase = "running"
    /\ dopts.apiToken = "key"
    /\ dopts.retries = 5 /\ dopts.timeout = 30
    /\ stats.api = 1
    /\ stack[2].req.params.shots = 1

\* the last option of the call in progress is WithSeed with a seed above
\* MaxSeed
SeedAboveMax ==
    /\ args # <<>>
    /\ args[Len(args)].f = "WithSeed"
    /\ SeedGT(args[Len(args)].s, MaxSeed)

\* C10: RunExperiment or RunJob called with WithSeed(s), s > 9999999999,
\* returns an ApiErr and the transport is not invoked
C10_SeedRejected ==
    (op \in {"RunExperiment", "RunJob"} /\ SeedAboveMax) =>
        /\ phase = "ready"
        /\ result.type = "ApiErr"
        /\ stats.api = 0

\* the call in progress or just returned takes ClientOptions
TakesOptions == op \in {"NewClient", "RunExperiment", "RunJob", "AvailableBackends"}

\* the last option of that call, when there is one
LastOption == args[Len(args)]

\* C11: after a call with options, c.opts holds the value of the last
\* option of the call: the backend of WithBackend, the shots of WithShots,
\* the seed of WithSeed
C11_OptionsTakeEffect ==
    (TakesOptions /\ args # <<>>) =>
        /\ LastOption.f = "WithBackend" => opts.backend = LastOption.a
        /\ LastOption.f = "WithShots" => opts.shots = LastOption.n
        /\ LastOption.f = "WithSeed" => opts.seed = LastOption.s

----------------------------------------------------------------------------
(* SpecConcurrent: NumCallers goroutines call AvailableBackends and         *)
(* checkBackend on one client, their steps interleaved in every order      *)

ConcurrentLookups ==
    {<<"simulator", "experiment">>, <<"ibmqx4", "job">>, <<"QS1_1", "status">>}

NextConcurrent ==
    \/ \E options \in RegistryDialLists : Dial(options)
    \/ NewClient(<<>>)
    \/ \E p \in Callers, body \in Bodies : GoAvailableBackends(p, body)
    \/ \E p \in Callers : Lock(p)
    \/ \E p \in Callers : Insert(p)
    \/ \E p \in Callers : ReturnBackends(p)
    \/ \E p \in Callers : Sims(p)
    \/ \E p \in Callers, l \in ConcurrentLookups : GoCheckBackend(p, l[1], l[2])
    \/ \E p \in Callers : Check(p)
    \/ \E p \in Callers : ReturnCheck(p)

SpecConcurrent == Init /\ [][NextConcurrent]_vars

----------------------------------------------------------------------------
(* Properties of the registry of backends, checked under SpecRegistry *)

\* C12: for endpoint "experiment" a name whose lower-cased form is a key
\* of OldBackendNames resolves to the value of the table, whatever the
\* registry holds; for any other endpoint and an empty registry every name
\* resolves to ""
C12_OldNames ==
    lookup # NoLookup =>
        /\ (/\ lookup.endpoint = "experiment"
            /\ ToLower(lookup.name) \in DOMAIN OldBackendNames) =>
                lookup.out = OldBackendNames[ToLower(lookup.name)]
        /\ (lookup.endpoint # "experiment" /\ backends = EmptyMap) =>
                lookup.out = ""

\* "Real" was resolved for an experiment on a client whose registry holds
\* backends
C12_Witness ==
    /\ lookup.name = "Real" /\ lookup.endpoint = "experiment"
    /\ lookup.out = "real"
    /\ backends # EmptyMap

\* C13: when the name checkBackend returned is resolved again for the same
\* endpoint on the same registry, the result is that name
C13_Idempotent ==
    lookup.again => lookup.out = lookup.name

\* the two fetches of the scenario: A is ibmqx4, B is ibmqx5, C is QS1_1
FirstFetch ==
    <<BackendOf("ibmqx4", "on", FALSE, 1), BackendOf("ibmqx5", "off", FALSE, 1)>>
SecondFetch ==
    <<BackendOf("ibmqx4", "off", FALSE, 2), BackendOf("QS1_1", "on", TRUE, 2)>>

\* C14: after a fetch of A(on), B(off) and a fetch of A(off), C(on) the
\* registry holds A as the second fetch gave it, B and C
C14_AfterTwoFetches ==
    fetched = <<FirstFetch, SecondFetch>> =>
        /\ {"ibmqx4", "ibmqx5", "QS1_1"} \subseteq DOMAIN backends
        /\ backends["ibmqx4"] = SecondFetch[1]

\* the places <<i, j>> of the log where backend n was listed with status on
OnPlaces(n) ==
    {p \in UNION {{<<i, j>> : j \in 1..Len(fetched[i])} : i \in 1..Len(fetched)} :
        /\ fetched[p[1]][p[2]].Name = n
        /\ fetched[p[1]][p[2]].Status = "on"}
\* the names listed in the log
ListedNames ==
    UNION {{fetched[i][j].Name : j \in 1..Len(fetched[i])} : i \in 1..Len(fetched)}
\* the last of a set of places
LastPlace(ps) ==
    CHOOSE p \in ps : \A q \in ps : q[1] < p[1] \/ (q[1] = p[1] /\ q[2] <= p[2])

----------------------------------------------------------------------------
(* Properties of concurrent calls, checked under SpecConcurrent *)

\* the next step of caller p reads or writes c.backends
AtAccess(p) == callers[p].pc \in {"insert", "check"}

\* the registry the logged fetches give when they run one after the other
RECURSIVE Replay(_, _)
Replay(log, m) ==
    IF log = <<>> THEN m ELSE Replay(Tail(log), InsertOn(Head(log), m))

\* C16: a caller about to insert into c.backends or to check a key of it
\* holds c.mu, so no two callers are at such a step together; and when no
\* AvailableBackends call is in progress the registry is the one the
\* finished calls give when run one after the other in the order of their
\* returns
C16_LockedRegistry ==
    /\ \A p \in Callers : AtAccess(p) => mu = p
    /\ \A p, q \in Callers : (p # q) => ~(AtAccess(p) /\ AtAccess(q))
    /\ (Fetching = 0) => backends = Replay(fetched, EmptyMap)

\* one caller is in the middle of its inserts while another waits for the
\* lock to check a name, after an earlier fetch
C16_Witness ==
    \E p, q \in Callers :
        /\ callers[p].pc = "insert" /\ callers[p].i = 2
        /\ callers[q].fn = "checkBackend" /\ callers[q].pc = "lock"
        /\ fetched # <<>>

----------------------------------------------------------------------------
(* Properties of RunExperiment and RunJob *)

\* the endpoint RunExperiment and RunJob resolve the backend for
EndpointOf(fn) == IF fn = "RunExperiment" THEN "experiment" ELSE "job"

\* C17: RunExperiment or RunJob called with WithBackend(b), b resolving to
\* nothing, has returned a BadBackendErr that names b and the transport was
\* not invoked
C17_BadBackend ==
    (/\ op \in {"RunExperiment", "RunJob"}
     /\ args # <<>>
     /\ LastOption.f = "WithBackend"
     /\ checkBackend(LastOption.a, EndpointOf(op)) = "") =>
        /\ phase = "ready"
        /\ result = BadBackendErr(LastOption.a)
        /\ stats.api = 0

\* the text without its leading version header
StripLeadingHeader(qasm) ==
    IF qasm # <<>> /\ Head(qasm) \in QasmHeaders THEN Tail(qasm) ELSE qasm

\* C18: the qasm in the body of the request RunExperiment sends is the
\* text it was given without its leading version header, every later piece
\* of the text kept
C18_OnlyLeadingHeader ==
    (op = "RunExperiment" /\ phase = "running") =>
        stack[2].req.body.qasm = StripLeadingHeader(qasmIn)

\* C19: no transport invocation begins after the context of the call was
\* cancelled
C19_CancelStopsRetries == ~stats.late

\* C20: a RunJob call that returned without error has posted one request
\* and the Job holds the id the server gave
C20_JobSubmitted ==
    (op = "RunJob" /\ phase = "ready" /\ result = ErrNil) =>
        /\ stats.api = 1
        /\ job.Id # ""

----------------------------------------------------------------------------
(* Properties of re-authentication, checked under Spec *)

\* the first pass of the Conn.do call that carries the request has ended:
\* the request was answered 401, obtainToken returned nil, the request sent
\* again got a status other than 200 and 401, and the next pass is about to
\* begin
AfterFailedReissue ==
    /\ phase = "running"
    /\ Len(stack) = 2
    /\ ApiDo.fn = "do" /\ ApiDo.pc = "loop"
    /\ stats.api = 2
    /\ stats.denied = 1 /\ stats.reauths = 1 /\ stats.reissues = 1
    /\ stats.failed = 1 /\ stats.errors = 0

\* C21: with retry count R, after the request was answered 401, the
\* re-authentication succeeded and the request sent again got a status other
\* than 200 and 401, R passes of the loop are still left
C21_ReauthKeepsCredit ==
    (AfterFailedReissue /\ dopts.retries >= 1) => ApiDo.retrys = dopts.retries

\* C22: during Dial a login request that got anything but a 200 with a
\* token is the only login request of the Dial call, and Dial then returns
\* an error
C22_LoginOnce ==
    (InDial /\ stats.loginBad) =>
        /\ stats.logins = 1
        /\ phase = "dialed" => result # ErrNil

----------------------------------------------------------------------------
(* Properties of the map AvailableBackends returns, checked under           *)
(* SpecConcurrent                                                           *)

\* the next step of caller p ranges over the map it was returned
AtRange(p) == callers[p].fn = "Sims" /\ callers[p].pc = "range"

\* C23: a caller that reads the map AvailableBackends returned does so
\* under c.mu, and never while another caller's AvailableBackends is about
\* to insert into the registry
C23_ReturnedMapLocked ==
    \A p \in Callers :
        AtRange(p) =>
            /\ mu = p
            /\ \A q \in Callers : callers[q].pc # "insert"

----------------------------------------------------------------------------
(* Properties of the defaults of RunJob, checked under SpecRegistry *)

\* the call in progress or just returned was given no WithBackend
NoBackendOption == \A i \in 1..Len(args) : args[i].f # "WithBackend"

\* C24: RunJob called without a backend option resolves the backend name
\* "simulator", whether RunExperiment was called before on the client or
\* not
C24_JobDefaultBackend ==
    (op = "RunJob" /\ phase = "ready" /\ NoBackendOption) =>
        /\ opts.backend = DefaultBackend
        /\ result # BadBackendErr("")

----------------------------------------------------------------------------
(* SpecSession: the credentials of the session.  One caller dials with an   *)
(* API token, makes a client and calls it any number of times, against a    *)
(* server that may answer 401 and a network that may fail; checkBackend is  *)
(* run by RunExperiment and RunJob                                          *)

SessionDialLists ==
    {<<WithApiToken("key"), WithRetries(n)>> : n \in 1..MaxRetries}

\* what the transport gives back: one of two tokens, a list of backends, an answer
\* without a body, 401, 500 or a failure of the network
SessionOutcomes ==
    {o \in Outcomes :
        \/ o.resp.status \in {0, 401, 500}
        \/ /\ o.resp.status = 200
           /\ o.resp.body \in {TokenBody("t1", "u1"), TokenBody("t2", "u2"), NoBody,
                                ListBody(<<BackendOf("simulator", "on", TRUE, 1)>>)}}

NextSession ==
    \/ \E options \in SessionDialLists : Dial(options)
    \/ DialReturn
    \/ obtainTokenStart
    \/ obtainTokenDecode
    \/ \E o \in SessionOutcomes : DoAttempt(o)
    \/ DoExhausted
    \/ DoReauthFailed
    \/ \E o \in SessionOutcomes : DoReissue(o)
    \/ NewClient(<<>>)
    \/ AvailableBackends(<<>>)
    \/ AvailableBackendsReturn
    \/ RunExperiment(<<"qreg q[1];">>, <<>>)
    \/ RunExperimentReturn
    \/ RunJob(<<>>)

SpecSession == Init /\ [][NextSession]_vars

\* C25: a call of the client that ends without a re-authentication, or
\* whose only re-authentication failed, leaves the access token of the
\* session as it was when the call built its request
C25_CredentialsKept ==
    (/\ ApiDone
     /\ \/ stats.reauths = 0
        \/ stats.reauths = 1 /\ stats.reissues = 0) =>
        dopts.accessToken = ApiDo.req.token

----------------------------------------------------------------------------
(* Properties of the requests Conn.do sends, checked under SpecSession *)

\* C26: once the Conn.do call that carries the request has sent it again
\* after a re-authentication, the access_token of the request is the
\* access token the session holds
C26_ReissueCarriesNewToken ==
    (/\ phase = "running"
     /\ Len(stack) >= 2
     /\ ApiDo.fn = "do"
     /\ stats.reissues >= 1) =>
        ApiDo.req.token = dopts.accessToken

----------------------------------------------------------------------------
(* Properties of the values Conn.do returns, checked under Spec *)

\* the calls of Conn.do that have executed their return statement
ReturnedDos == {i \in 1..Len(stack) : stack[i].fn = "do" /\ stack[i].pc = "return"}

----------------------------------------------------------------------------
(* SpecShared: NumCallers goroutines call one Conn through one client,     *)
(* their steps interleaved in every order.  The Conn was dialled with an   *)
(* API token and an access token, so Dial makes no login and a 401 makes   *)
(* one                                                                     *)

SharedDialLists ==
    {<<WithApiToken("key"), WithAccessInfo("t0", "u0"), WithRetries(n)>> :
        n \in 1..MaxRetries}

Statuses == {200, 401, 500}

LoginBodies == {TokenBody("t1", "u1"), NoBody}

NextShared ==
    \/ \E options \in SharedDialLists : Dial(options)
    \/ NewClient(<<>>)
    \/ \E p \in Callers : GoGet(p)
    \/ \E p \in Callers : BuildRequest(p)
    \/ \E p \in Callers, status \in Statuses : Send(p, status)
    \/ \E p \in Callers : SendExhausted(p)
    \/ \E p \in Callers, body \in LoginBodies : Login(p, body)
    \/ \E p \in Callers : SetUserId(p)
    \/ \E p \in Callers : SetAccessToken(p)
    \/ \E p \in Callers, status \in Statuses : Resend(p, status)

SpecShared == Init /\ [][NextShared]_vars

\* C28: no caller is about to read c.dopts.accessToken for its request
\* while another caller is about to write c.dopts.accessToken or
\* c.dopts.userId at the end of its obtainToken call
C28_NoCredentialRace ==
    \A p, q \in Callers :
        (p # q /\ callers[p].pc = "newRequest") =>
            callers[q].pc \notin {"setUserId", "setAccessToken"}

====
